---------------------------- MODULE Spec2Model ----------------------------
(***************************************************************************)
(* Model of the media streaming handler of server.js                       *)
(* (GET /api/stream/:name): name decoding and validation, the stat of the  *)
(* resolved path, Range parsing and validation, the response head, and the *)
(* read stream piped into the response; and of the listing handler         *)
(* (GET /api/videos); and of the selection handler of the page, app.js.    *)
(*                                                                         *)
(* Strings are sequences of tokens.  A token is either a character the     *)
(* code looks at ("." "/" "%" "-" "," a decimal digit) or a run of         *)
(* characters none of which the code tells apart ("v", "mp4", "bytes=").   *)
(* Paths follow path.posix.                                                *)
(***************************************************************************)
EXTENDS Integers, Sequences, FiniteSets, TLC

VARIABLES
    disk,   \* path -> [present, size]: the files of the two media folders
    req,    \* request id -> the state of that request and of its response
    dirs,   \* media folder -> [state, entries]: what fsp.readdir finds
    list,   \* the request GET /api/videos and its response
    page    \* the page of app.js: selectedName, the elements, the handlers

vars == <<disk, req, dirs, list, page>>

----------------------------------------------------------------------------
(* Bounds *)

MaxSize == 4      \* largest file size, in bytes
MaxDigit == 5     \* largest decimal digit used in Range headers
ChunkSize == 2    \* bytes moved by one read of the read stream
MaxNameLen == 3   \* every name of up to this many tokens is requested
MaxHdrLen == 4    \* every Range header of up to this many tokens is sent
MaxEntries == 2   \* most entries of one media folder when it is listed
MaxClicks == 3    \* most clicks on items of the page

----------------------------------------------------------------------------
(* Sequences of tokens *)

SeqsUpTo(S, n) == UNION {[1..k -> S] : k \in 0..n}

Slice(s, a, b) == IF a > b THEN <<>> ELSE [i \in 1..(b - a + 1) |-> s[a + i - 1]]

Min(a, b) == IF a <= b THEN a ELSE b

\* String.prototype.includes for a token sequence
Includes(s, sub) ==
    \E i \in 1..(Len(s) + 1) :
        /\ i + Len(sub) - 1 <= Len(s)
        /\ Slice(s, i, i + Len(sub) - 1) = sub

----------------------------------------------------------------------------
(* server.js:92  decodeURIComponent *)

\* the escapes of the model's alphabet: %25 is "%", %2F is "/", %2E is "."
HexTokens == {"25", "2F", "2E"}

Unescape(h) == IF h = "25" THEN "%" ELSE IF h = "2F" THEN "/" ELSE "."

\* decodeURIComponent throws URIError on a "%" that no two hex digits follow
RECURSIVE CanDecode(_)
CanDecode(s) ==
    IF s = <<>> THEN TRUE
    ELSE IF Head(s) = "%"
         THEN /\ Len(s) >= 2
              /\ s[2] \in HexTokens
              /\ CanDecode(SubSeq(s, 3, Len(s)))
         ELSE CanDecode(Tail(s))

RECURSIVE decodeURIComponent(_)
decodeURIComponent(s) ==
    IF s = <<>> THEN <<>>
    ELSE IF Head(s) = "%"
         THEN <<Unescape(s[2])>> \o decodeURIComponent(SubSeq(s, 3, Len(s)))
         ELSE <<Head(s)>> \o decodeURIComponent(Tail(s))

\* app.js:42  encodeURIComponent: "%" and "/" are escaped, "." and the
\* letters and digits of the other tokens are not
RECURSIVE encodeURIComponent(_)
encodeURIComponent(s) ==
    IF s = <<>> THEN <<>>
    ELSE (IF Head(s) = "%" THEN <<"%", "25">>
          ELSE IF Head(s) = "/" THEN <<"%", "2F">>
          ELSE <<Head(s)>>) \o encodeURIComponent(Tail(s))

----------------------------------------------------------------------------
(* server.js:96  path.basename, server.js:101  path.extname, toLowerCase *)

\* index of the last token that is not "/", 0 when there is none
LastNonSlash(p) ==
    IF \E i \in 1..Len(p) : p[i] # "/"
    THEN CHOOSE i \in 1..Len(p) : p[i] # "/" /\ \A j \in (i + 1)..Len(p) : p[j] = "/"
    ELSE 0

\* path.basename: trailing separators are dropped, then everything up to the
\* last separator that is left
basename(p) ==
    LET e == LastNonSlash(p)
        slashes == {i \in 1..e : p[i] = "/"}
        st == IF slashes = {} THEN 1
              ELSE 1 + (CHOOSE i \in slashes : \A j \in slashes : j <= i)
    IN  IF e = 0 THEN <<>> ELSE Slice(p, st, e)

\* path.extname: from the last "." of the last path component; empty when
\* there is no ".", when the "." starts the component, or for ".."
extname(p) ==
    LET part == basename(p)
        dots == {i \in 1..Len(part) : part[i] = "."}
        d == CHOOSE i \in dots : \A j \in dots : j <= i
    IN  IF dots = {} THEN <<>>
        ELSE IF d = 1 THEN <<>>
        ELSE IF part = <<".", ".">> THEN <<>>
        ELSE Slice(part, d, Len(part))

LowerTok(t) ==
    IF t = "MP4" THEN "mp4" ELSE IF t = "JPG" THEN "jpg" ELSE t

toLowerCase(s) == [i \in 1..Len(s) |-> LowerTok(s[i])]

\* server.js:24-26
VIDEO_EXTENSIONS == {<<".", "mp4">>, <<".", "webm">>}
IMAGE_EXTENSIONS == {<<".", "jpg">>, <<".", "jpeg">>}
ALLOWED_EXTENSIONS == VIDEO_EXTENSIONS \cup IMAGE_EXTENSIONS

\* server.js:20-21
VIDEOS_DIR == "videos"
PICTURES_DIR == "pictures"

\* server.js:72-78
getContentType(fileName) ==
    LET ext == toLowerCase(extname(fileName))
    IN  IF ext = <<".", "mp4">> THEN "video/mp4"
        ELSE IF ext = <<".", "webm">> THEN "video/webm"
        ELSE IF ext = <<".", "jpg">> \/ ext = <<".", "jpeg">> THEN "image/jpeg"
        ELSE "application/octet-stream"

\* server.js:101  path.extname(safeName).toLowerCase()
LowerExt(safeName) == toLowerCase(extname(safeName))

\* a guard that looks for ".." instead of comparing with the basename
IsSafeNameNoDotDot(requestedName) == ~Includes(requestedName, <<".", ".">>)

\* server.js:97  the traversal guard: only file names, not paths
IsSafeName(requestedName) == basename(requestedName) = requestedName

\* a check that only asks for some extension
ExtAllowedAnyExt(ext) == ext # <<>>

\* server.js:102
ExtAllowed(ext) == ext \in ALLOWED_EXTENSIONS

\* server.js:106-107  path.join(baseDir, safeName), for a safeName that is a
\* single path component other than "." and ".."
VideoPath(safeName) ==
    LET ext == LowerExt(safeName)
    IN  <<IF ext \in VIDEO_EXTENSIONS THEN VIDEOS_DIR ELSE PICTURES_DIR, safeName>>

----------------------------------------------------------------------------
(* server.js:119-125  the Range header: the pattern of range.match, parseInt *)

DigitStr == <<"0", "1", "2", "3", "4", "5", "6", "7", "8", "9">>

IsDigit(t) == \E n \in 1..Len(DigitStr) : DigitStr[n] = t

DigitVal(t) == (CHOOSE n \in 1..Len(DigitStr) : DigitStr[n] = t) - 1

\* parseInt(digits, 10)
RECURSIVE parseInt(_)
parseInt(ds) ==
    IF ds = <<>> THEN 0
    ELSE 10 * parseInt(SubSeq(ds, 1, Len(ds) - 1)) + DigitVal(ds[Len(ds)])

\* the end of the longest run of digits that starts at i (i - 1: no digit at i)
DigitRunEnd(s, i) ==
    IF i <= Len(s) /\ IsDigit(s[i])
    THEN CHOOSE j \in i..Len(s) :
            /\ \A k \in i..j : IsDigit(s[k])
            /\ (j = Len(s) \/ ~IsDigit(s[j + 1]))
    ELSE i - 1

\* the pattern "bytes=", digits, "-", optional digits matches at position i.
\* Both digit runs are greedy and captured.  The pattern has no
\* anchors: text before position i and after the match is ignored.
MatchesAt(s, i) ==
    /\ s[i] = "bytes="
    /\ DigitRunEnd(s, i + 1) >= i + 1
    /\ DigitRunEnd(s, i + 1) + 1 <= Len(s)
    /\ s[DigitRunEnd(s, i + 1) + 1] = "-"

\* range.match(...) is not null
RangeMatches(s) == \E i \in 1..Len(s) : MatchesAt(s, i)

\* match[1] and match[2] of the leftmost match
RangeMatch(s) ==
    LET i == CHOOSE k \in 1..Len(s) : MatchesAt(s, k) /\ \A l \in 1..(k - 1) : ~MatchesAt(s, l)
        j == DigitRunEnd(s, i + 1)
    IN  <<Slice(s, i + 1, j), Slice(s, j + 2, DigitRunEnd(s, j + 2))>>

\* server.js:117  if (range): a header that is present and not the empty string
RangeGiven(hdr) == hdr.present /\ hdr.val # <<>>

\* an omitted end that defaults to the size of the file
RangeEndIsSize(m2, fileSize) == IF m2 # <<>> THEN parseInt(m2) ELSE fileSize

\* server.js:125
RangeEnd(m2, fileSize) == IF m2 # <<>> THEN parseInt(m2) ELSE fileSize - 1

\* the end offset compared with > instead of >=
RangeUnsatisfiableEndOffByOne(start, end, fileSize) ==
    start >= fileSize \/ end > fileSize \/ start > end

\* server.js:128
RangeUnsatisfiable(start, end, fileSize) ==
    start >= fileSize \/ end >= fileSize \/ start > end

\* the length of an exclusive range
ChunkLengthExclusive(start, end) == end - start

\* server.js:132
ChunkLength(start, end) == end - start + 1

----------------------------------------------------------------------------
(* The media folders *)

DiskPaths == {<<VIDEOS_DIR, <<"v", ".", "mp4">>>>, <<PICTURES_DIR, <<"v", ".", "jpg">>>>}

\* fsp.stat / fs.open find the file
Present(path) == path \in DOMAIN disk /\ disk[path].present

\* the byte at offset off of the file at path
Byte(path, off) == (IF path[1] = VIDEOS_DIR THEN 100 ELSE 200) + off

\* the bytes at offsets a..b
FileSlice(path, a, b) == [i \in 1..(b - a + 1) |-> Byte(path, a + i - 1)]

----------------------------------------------------------------------------
(* server.js:35-66  GET /api/videos *)

Roots == {VIDEOS_DIR, PICTURES_DIR}

\* a Dirent of a regular file
FileEntry(name) == [name |-> name, kind |-> "file"]

\* the Dirents of the files at the paths P that are in folder d
Folder(P, d) == {FileEntry(p[2]) : p \in {x \in P : x[1] = d}}

\* the position of a token in the collation order of localeCompare:
\* punctuation, then digits, then letters, a lower case letter before its
\* upper case
TokOrder ==
    <<".", "%", "25", "2E", "2F", "a", "b", "jpg", "mp4", "MP4", "txt", "v">>

TokRank(t) == CHOOSE i \in 1..Len(TokOrder) : TokOrder[i] = t

\* a.localeCompare(b), for names of the tokens of TokOrder in which a
\* difference of case is the only difference: the first token that differs
\* decides, a proper prefix comes first
RECURSIVE localeCompare(_, _)
localeCompare(a, b) ==
    IF a = <<>> THEN (IF b = <<>> THEN 0 ELSE 0 - 1)
    ELSE IF b = <<>> THEN 1
    ELSE IF TokRank(Head(a)) < TokRank(Head(b)) THEN 0 - 1
    ELSE IF TokRank(Head(a)) > TokRank(Head(b)) THEN 1
    ELSE localeCompare(Tail(a), Tail(b))

\* Array.prototype.sort((a, b) => a.localeCompare(b)) of distinct names
RECURSIVE SortNames(_)
SortNames(S) ==
    IF S = {} THEN <<>>
    ELSE LET least == CHOOSE a \in S : \A b \in S : localeCompare(a, b) <= 0
         IN  <<least>> \o SortNames(S \ {least})

\* a readdir whose catch returns [] for every error
ReaddirSwallowsAll(d) ==
    IF dirs[d].state = "ok" THEN [err |-> "", entries |-> dirs[d].entries]
    ELSE [err |-> "", entries |-> {}]

\* server.js:37-40, 41-44  fsp.readdir(dir, {withFileTypes: true}).catch(...):
\* the entries, [] for ENOENT, else the error thrown again
Readdir(d) ==
    IF dirs[d].state = "ok" THEN [err |-> "", entries |-> dirs[d].entries]
    ELSE IF dirs[d].state = "ENOENT" THEN [err |-> "", entries |-> {}]
    ELSE [err |-> dirs[d].state, entries |-> {}]

\* server.js:47-50, 52-55  filter isFile, map name, filter by extension
MediaFiles(entries, extensions) ==
    {e.name : e \in {x \in entries : x.kind = "file" /\ LowerExt(x.name) \in extensions}}

IdleList == [phase |-> "Idle", status |-> 0, body |-> <<>>, log |-> <<>>]

\* server.js:35-66  the handler
ListHandler ==
    LET videoEntries == Readdir(VIDEOS_DIR)
        pictureEntries == Readdir(PICTURES_DIR)
        err == IF videoEntries.err # "" THEN videoEntries.err ELSE pictureEntries.err
    IN  IF err # ""
        THEN [phase |-> "Replied", status |-> 500,
              body |-> [error |-> "Could not read media folders."],
              log |-> <<<<"Error reading media folders:", err>>>>]
        ELSE [phase |-> "Replied", status |-> 200,
              body |-> [videos |-> SortNames(MediaFiles(videoEntries.entries, VIDEO_EXTENSIONS)),
                        pictures |-> SortNames(MediaFiles(pictureEntries.entries, IMAGE_EXTENSIONS))],
              log |-> <<>>]

----------------------------------------------------------------------------
(* app.js:34-78, 112-114  the page: a click on an item runs handleSelect *)

\* the items the two lists of the page show: [name, asImage]
PageItems ==
    {[name |-> <<"a", ".", "mp4">>, asImage |-> FALSE],
     [name |-> <<"v", ".", "mp4">>, asImage |-> FALSE],
     [name |-> <<"v", ".", "jpg">>, asImage |-> TRUE]}

\* dataset.name of the buttons of class video-btn
ButtonNames == {it.name : it \in PageItems}

\* app.js:42
StreamUrl(name) == <<"/api/stream/">> \o encodeURIComponent(name)

\* app.js:38
NowPlayingText(name, asImage) ==
    <<IF asImage THEN "Now viewing: " ELSE "Now playing: ">> \o name

NoSrc == <<>>

\* the page before the first click, with the inline display of the player and
\* of the image viewer as given
PageWith(playerDisplay, imageDisplay) ==
    [selectedName  |-> <<>>,        \* null
     nowPlaying    |-> <<>>,        \* nowPlayingEl.textContent
     playerDisplay |-> playerDisplay,
     playerSrc     |-> NoSrc,
     imageDisplay  |-> imageDisplay,
     imageSrc      |-> NoSrc,
     imageAlt      |-> <<>>,
     fontWeight    |-> [b \in ButtonNames |-> ""],
     clicks        |-> <<>>,        \* the items clicked, in order
     pending       |-> {},          \* the calls suspended at await playerEl.play()
     ended         |-> <<>>]        \* the calls that returned, in order

IdlePage == PageWith("", "")

\* a loop that bolds the button of the name its own call was given
BoldNameOwn(p, name) == name

\* app.js:76  the name the loop compares with: the variable selectedName
BoldName(p, name) == p.selectedName

\* app.js:75-77  the loop over the buttons, in the call for name; the call returns
BoldLoop(p, call) ==
    [p EXCEPT !.fontWeight =
                 [b \in ButtonNames |->
                     IF b = BoldName(p, p.clicks[call].name) THEN "700" ELSE "400"],
              !.pending = @ \ {call},
              !.ended = Append(@, call)]

\* app.js:34-72  handleSelect(name, asImage) up to await playerEl.play(), or
\* through its end when asImage
HandleSelect(p, name, asImage) ==
    LET call == Len(p.clicks) + 1
        url == StreamUrl(name)
        p1 == [p EXCEPT !.clicks = Append(@, [name |-> name, asImage |-> asImage]),
                        !.selectedName = name,
                        !.nowPlaying = NowPlayingText(name, asImage)]
    IN  IF asImage
        THEN BoldLoop([p1 EXCEPT !.playerSrc = NoSrc, !.playerDisplay = "none",
                                 !.imageSrc = url, !.imageAlt = name,
                                 !.imageDisplay = "block"], call)
        ELSE [p1 EXCEPT !.imageSrc = NoSrc, !.imageDisplay = "none",
                        !.playerDisplay = "block", !.playerSrc = url,
                        !.pending = @ \cup {call}]

----------------------------------------------------------------------------
(* One request: req, res and the read stream of server.js:89-171 *)

NoHeaders == <<>>

IdleReq ==
    [phase      |-> "Idle",      \* Idle, Stat, HeaderSent, Streaming,
                                 \* Completed, Aborted, Replied
     name       |-> <<>>,        \* req.params.name
     hdr        |-> [present |-> FALSE, val |-> <<>>],   \* req.headers.range
     videoPath  |-> <<"", <<>>>>,
     fileSize   |-> 0,
     status     |-> 0,           \* the status written, 0: none yet
     headers    |-> NoHeaders,
     headWrites |-> 0,           \* how many times a status and headers were written
     text       |-> "",          \* the body of an error reply
     body       |-> <<>>,        \* the file bytes written to the response
     ops        |-> <<>>,        \* the filesystem calls issued, in order
     log        |-> <<>>,        \* the errors given to console.error, in order
     hasEnd     |-> FALSE,       \* createReadStream was given {start, end}
     start      |-> 0,
     end        |-> 0,
     pos        |-> 0,           \* the next offset the read stream reads
     fdOpen     |-> FALSE,       \* the read stream holds an open file descriptor
     readError  |-> FALSE,       \* the read stream emitted "error"
     closed     |-> FALSE]       \* the client connection closed

\* res.status(st).send(text)
Send(q, st, text) ==
    [q EXCEPT !.phase = "Replied", !.status = st, !.text = text,
              !.headers = "Content-Type" :> "text/html",
              !.headWrites = @ + 1]

\* a catch block that does not look at err.code
CatchStatusAlways500(code) == 500

\* server.js:168  err.code === "ENOENT"
CatchStatus(code) == IF code = "ENOENT" THEN 404 ELSE 500

\* server.js:165-170  the catch block
Catch(q, code) ==
    LET q1 == [q EXCEPT !.log = Append(@, <<"Error streaming file:", code>>)]
    IN  IF CatchStatus(code) = 404 THEN Send(q1, 404, "Not found.")
        ELSE Send(q1, 500, "Server error.")

\* server.js:134-142  writeHead(206, ...), createReadStream(videoPath, {start, end}), pipe
Respond206(q, start, end, fileSize) ==
    [q EXCEPT !.phase = "HeaderSent", !.status = 206,
              !.headers = ("Content-Range" :> <<start, end, fileSize>>)
                          @@ ("Accept-Ranges" :> "bytes")
                          @@ ("Content-Length" :> ChunkLength(start, end))
                          @@ ("Content-Type" :> getContentType(q.videoPath[2])),
              !.headWrites = @ + 1,
              !.ops = Append(@, <<"createReadStream", q.videoPath>>),
              !.hasEnd = TRUE, !.start = start, !.end = end, !.pos = start]

\* a 200 head without Content-Length
Respond200NoLength(q, fileSize) ==
    [q EXCEPT !.phase = "HeaderSent", !.status = 200,
              !.headers = "Content-Type" :> getContentType(q.videoPath[2]),
              !.headWrites = @ + 1,
              !.ops = Append(@, <<"createReadStream", q.videoPath>>),
              !.hasEnd = FALSE, !.start = 0, !.pos = 0]

\* server.js:153-159  writeHead(200, ...), createReadStream(videoPath), pipe
Respond200(q, fileSize) ==
    [q EXCEPT !.phase = "HeaderSent", !.status = 200,
              !.headers = ("Content-Length" :> fileSize)
                          @@ ("Content-Type" :> getContentType(q.videoPath[2])),
              !.headWrites = @ + 1,
              !.ops = Append(@, <<"createReadStream", q.videoPath>>),
              !.hasEnd = FALSE, !.start = 0, !.pos = 0]

\* an error listener that replies with an error status as the catch block does
OnStreamErrorReplies(q, code) ==
    Catch([q EXCEPT !.readError = TRUE, !.fdOpen = FALSE], code)

\* server.js:144-147, 161-164  stream.on("error"): res.end().  The read stream
\* that emitted the error has destroyed itself and holds no descriptor.
OnStreamError(q, code) ==
    [q EXCEPT !.phase = "Aborted", !.readError = TRUE, !.fdOpen = FALSE,
              !.log = Append(@, <<"Stream error:", code>>)]

\* server.js:92-110  the handler up to the await of fsp.stat
HandlerEntry(q) ==
    IF ~CanDecode(q.name) THEN Catch(q, "URIError")
    ELSE LET requestedName == decodeURIComponent(q.name)
             safeName == basename(requestedName)
             ext == LowerExt(safeName)
         IN  IF ~IsSafeName(requestedName) THEN Send(q, 400, "Invalid file name.")
             ELSE IF ~ExtAllowed(ext) THEN Send(q, 415, "Unsupported media type.")
             ELSE [q EXCEPT !.phase = "Stat",
                            !.videoPath = VideoPath(safeName),
                            !.ops = Append(@, <<"stat", VideoPath(safeName)>>)]

\* server.js:117-150  the Range branch, with the size stat returned
RangeBranch(q, fileSize) ==
    IF ~RangeMatches(q.hdr.val) THEN Send(q, 416, "Malformed Range header.")
    ELSE LET match == RangeMatch(q.hdr.val)
             start == parseInt(match[1])
             end == RangeEnd(match[2], fileSize)
         IN  IF RangeUnsatisfiable(start, end, fileSize)
             THEN Send(q, 416, "Requested range not satisfiable.")
             ELSE Respond206(q, start, end, fileSize)

\* a handler that matches the Range header before it looks at the result of stat
AfterStatRangeFirst(q) ==
    IF RangeGiven(q.hdr) /\ ~RangeMatches(q.hdr.val)
    THEN Send(q, 416, "Malformed Range header.")
    ELSE IF ~Present(q.videoPath) THEN Catch(q, "ENOENT")
    ELSE LET fileSize == disk[q.videoPath].size
             q1 == [q EXCEPT !.fileSize = fileSize]
         IN  IF RangeGiven(q.hdr) THEN RangeBranch(q1, fileSize)
             ELSE Respond200(q1, fileSize)

\* server.js:110-164  the handler from the result of fsp.stat on
AfterStat(q) ==
    IF ~Present(q.videoPath) THEN Catch(q, "ENOENT")
    ELSE LET fileSize == disk[q.videoPath].size
             q1 == [q EXCEPT !.fileSize = fileSize]
         IN  IF RangeGiven(q.hdr) THEN RangeBranch(q1, fileSize)
             ELSE Respond200(q1, fileSize)

\* a read stream that takes its end option as exclusive
LastOffsetExclusive(q) == IF q.hasEnd THEN q.end - 1 ELSE disk[q.videoPath].size - 1

\* the last offset the read stream reads: its end option, else the end of the file
LastOffset(q) == IF q.hasEnd THEN q.end ELSE disk[q.videoPath].size - 1

----------------------------------------------------------------------------
(* Actions *)

\* a request arrives, with a name of N and a Range header of H, and the
\* handler runs to its first await
Receive(r, N, H) ==
    /\ req[r].phase = "Idle"
    /\ \E name \in N, hdr \in H :
          req' = [req EXCEPT ![r] =
                    HandlerEntry([IdleReq EXCEPT !.name = name, !.hdr = hdr])]
    /\ UNCHANGED <<disk, dirs, list, page>>

\* fsp.stat settles and the handler runs to its end
StatDone(r) ==
    /\ req[r].phase = "Stat"
    /\ req' = [req EXCEPT ![r] = AfterStat(req[r])]
    /\ UNCHANGED <<disk, dirs, list, page>>

\* the read stream opens the file: a descriptor, or "error" with ENOENT
Open(r) ==
    /\ req[r].phase = "HeaderSent"
    /\ req' = [req EXCEPT ![r] =
                 IF Present(req[r].videoPath)
                 THEN [req[r] EXCEPT !.phase = "Streaming", !.fdOpen = TRUE]
                 ELSE OnStreamError(req[r], "ENOENT")]
    /\ UNCHANGED <<disk, dirs, list, page>>

\* a read through one file position that all streams of a file share: the read
\* of one request moves the position of the others
ReadChunkSharedCursor(r) ==
    LET q == req[r]
        n == Min(ChunkSize, LastOffset(q) - q.pos + 1)
    IN  /\ q.phase = "Streaming"
        /\ ~q.closed
        /\ n > 0
        /\ req' = [s \in DOMAIN req |->
                     IF s = r
                     THEN [q EXCEPT !.body = @ \o FileSlice(q.videoPath, q.pos, q.pos + n - 1),
                                    !.pos = @ + n]
                     ELSE IF req[s].phase = "Streaming" /\ req[s].videoPath = q.videoPath
                          THEN [req[s] EXCEPT !.pos = @ + n]
                          ELSE req[s]]
        /\ UNCHANGED <<disk, dirs, list, page>>

\* one read of the piped stream, written to the response.  An open descriptor
\* keeps reading a file that was removed after the open.
ReadChunk(r) ==
    LET q == req[r]
        n == Min(ChunkSize, LastOffset(q) - q.pos + 1)
    IN  /\ q.phase = "Streaming"
        /\ ~q.closed
        /\ n > 0
        /\ req' = [req EXCEPT ![r] =
                     [q EXCEPT !.body = @ \o FileSlice(q.videoPath, q.pos, q.pos + n - 1),
                               !.pos = @ + n]]
        /\ UNCHANGED <<disk, dirs, list, page>>

\* the read stream ends: it closes its descriptor and pipe ends the response
StreamEnd(r) ==
    LET q == req[r]
    IN  /\ q.phase = "Streaming"
        /\ ~q.closed
        /\ q.pos > LastOffset(q)
        /\ req' = [req EXCEPT ![r] = [q EXCEPT !.phase = "Completed", !.fdOpen = FALSE]]
        /\ UNCHANGED <<disk, dirs, list, page>>

\* a read fails (an I/O error): the stream emits "error"
ReadError(r) ==
    /\ req[r].phase = "Streaming"
    /\ ~req[r].closed
    /\ req' = [req EXCEPT ![r] = OnStreamError(req[r], "EIO")]
    /\ UNCHANGED <<disk, dirs, list, page>>

\* the client connection closes: pipe unpipes the response, which pauses the
\* read stream; nothing in the handler destroys the read stream
ClientClose(r) ==
    /\ req[r].phase \in {"Stat", "HeaderSent", "Streaming"}
    /\ ~req[r].closed
    /\ req' = [req EXCEPT ![r].closed = TRUE]
    /\ UNCHANGED <<disk, dirs, list, page>>

\* a file is removed from a media folder
RemoveFile(path) ==
    /\ Present(path)
    /\ disk' = [disk EXCEPT ![path].present = FALSE]
    /\ dirs' = [dirs EXCEPT ![path[1]].entries = @ \ {FileEntry(path[2])}]
    /\ UNCHANGED <<req, list, page>>

\* GET /api/videos arrives and is answered
ListVideos ==
    /\ list.phase = "Idle"
    /\ list' = ListHandler
    /\ UNCHANGED <<disk, req, dirs, page>>

\* app.js:112-114  a click on the button of an item
Click(item) ==
    /\ Len(page.clicks) < MaxClicks
    /\ page' = HandleSelect(page, item.name, item.asImage)
    /\ UNCHANGED <<disk, req, dirs, list>>

\* app.js:68-77  the promise of playerEl.play() settles, fulfilled or rejected,
\* and the suspended call runs to its end
PlaySettled(call) ==
    /\ call \in page.pending
    /\ page' = BoldLoop(page, call)
    /\ UNCHANGED <<disk, req, dirs, list>>

----------------------------------------------------------------------------
(* Inputs *)

Absent == [present |-> FALSE, val |-> <<>>]
Hdr(s) == [present |-> TRUE, val |-> s]

Digits == {DigitStr[n + 1] : n \in 0..MaxDigit}

NameTokens == {"v", ".", "/", "%", "25", "2F", "mp4", "MP4", "jpg", "txt"}

RangeTokens == {"bytes=", "-", ",", "x", "0", "1"}

VideoFile == <<VIDEOS_DIR, <<"v", ".", "mp4">>>>

\* the requests of the main specification
ReqNames ==
    { <<"v", ".", "mp4">>, <<"v", ".", "jpg">>, <<"v", ".", "MP4">>,
      <<"v", ".", "txt">>, <<"v", ".", ".", "mp4">>, <<".", ".">>,
      <<".", ".", "/", "v", ".", "mp4">>, <<"v", "%">>,
      <<"%", "2F", "v", ".", "mp4">> }

ReqHdrs ==
    {Absent, Hdr(<<>>), Hdr(<<"bytes=", "-", "2">>), Hdr(<<"x">>),
     Hdr(<<"bytes=", "0", "-", "1", ",", "2", "-", "3">>),
     Hdr(<<"x", "bytes=", "1", "-">>)}
    \cup {Hdr(<<"bytes=", a, "-">>) : a \in Digits}
    \cup {Hdr(<<"bytes=", a, "-", b>>) : a \in Digits, b \in Digits}

\* the names of the specification of the name stages: every short name, and
\* file names behind the prefixes of a traversal
NamePrefixes ==
    {<<>>, <<".", ".", "/">>, <<"/">>, <<"v", "/">>, <<"%", "2F">>,
     <<".", ".", "%", "2F">>, <<"%", "25", "2F">>, <<".", ".">>}

NameStems ==
    {<<"v", ".", "mp4">>, <<"v", ".", "jpg">>, <<"v", ".", "MP4">>, <<"v", ".", "txt">>,
     <<"v", ".", ".", "mp4">>, <<"v", ".", "mp4", "/">>, <<"v", ".", "mp4", ".">>,
     <<"v", ".", "txt", ".", "mp4">>, <<"v", ".", "mp4", ".", "txt">>}

AllNames ==
    (SeqsUpTo(NameTokens, MaxNameLen) \ {<<>>})
    \cup {pre \o stem : pre \in NamePrefixes, stem \in NameStems}

NameHdrs == {Absent, Hdr(<<"bytes=", "0", "-">>), Hdr(<<"x">>)}

\* the Range headers of the specification of the Range stage: every short
\* header, and [x] bytes= [digits] - [digits] [x | ,2-3]
NumStrs == {<<>>} \cup {<<d>> : d \in Digits} \cup {<<"1", d>> : d \in Digits}

AllHdrs ==
    {Absent}
    \cup {Hdr(s) : s \in SeqsUpTo(RangeTokens, MaxHdrLen)}
    \cup {Hdr(pre \o <<"bytes=">> \o a \o <<"-">> \o b \o suf) :
            pre \in {<<>>, <<"x">>}, a \in NumStrs, b \in NumStrs,
            suf \in {<<>>, <<"x">>, <<",", "2", "-", "3">>}}

RangeNames == {<<"v", ".", "mp4">>}

Reqs == {"r1"}

----------------------------------------------------------------------------
(* Specifications *)

InitOver(R, P, S) ==
    /\ disk \in [P -> [present : {TRUE}, size : S]]
    /\ req = [r \in R |-> IdleReq]
    /\ dirs = [d \in Roots |-> [state |-> "ok", entries |-> Folder(P, d)]]
    /\ list = IdleList
    /\ page = IdlePage

NextOver(R, N, H) ==
    \/ \E r \in R : Receive(r, N, H)
    \/ \E r \in R : StatDone(r)
    \/ \E r \in R : Open(r)
    \/ \E r \in R : ReadChunk(r)
    \/ \E r \in R : StreamEnd(r)
    \/ \E r \in R : ReadError(r)
    \/ \E r \in R : ClientClose(r)
    \/ \E path \in DiskPaths : RemoveFile(path)

\* the stream handler under file removal, disconnects and read errors
Init == InitOver(Reqs, DiskPaths, 0..MaxSize)
Next == NextOver(Reqs, ReqNames, ReqHdrs)
Spec == Init /\ [][Next]_vars

\* the name stages over every name
InitNames == InitOver(Reqs, DiskPaths, {MaxSize})
NextNames == NextOver(Reqs, AllNames, NameHdrs)
SpecNames == InitNames /\ [][NextNames]_vars

\* the Range stage over every header and file size
InitRanges == InitOver(Reqs, {VideoFile}, 0..MaxSize)
NextRanges == NextOver(Reqs, RangeNames, AllHdrs)
SpecRanges == InitRanges /\ [][NextRanges]_vars

----------------------------------------------------------------------------
(* A client that fetches one file in three consecutive ranges and then whole *)

\* the decimal digits of n
RECURSIVE NumStr(_)
NumStr(n) ==
    IF n < 10 THEN <<DigitStr[n + 1]>>
    ELSE NumStr(n \div 10) \o <<DigitStr[(n % 10) + 1]>>

\* Range: bytes=a-b
PartHdr(a, b) == Hdr(<<"bytes=">> \o NumStr(a) \o <<"-">> \o NumStr(b))

\* the four requests of the client, in the order it sends them
Parts == <<"p1", "p2", "p3", "full">>

PartReqs == {Parts[i] : i \in 1..Len(Parts)}

\* the Range headers the client may send as its i-th request: the first range
\* starts at 0, the next starts where the one before ended, the third runs to
\* the last byte of the file, the fourth request has no Range header
PartHdrs(i) ==
    LET N == disk[VideoFile].size
        from == IF i = 1 THEN 0 ELSE req[Parts[i - 1]].end + 1
    IN  IF i = 4 THEN {Absent}
        ELSE IF i = 3 THEN {PartHdr(from, b) : b \in {N - 1} \cap (0..MaxSize)}
        ELSE {PartHdr(from, b) : b \in 0..MaxSize}

\* the client sends its i-th request once the one before is complete
FetchPart(i) ==
    /\ i > 1 => req[Parts[i - 1]].phase = "Completed"
    /\ Receive(Parts[i], {VideoFile[2]}, PartHdrs(i))

InitPartition == InitOver(PartReqs, {VideoFile}, 0..MaxSize)

NextPartition ==
    \/ \E i \in 1..Len(Parts) : FetchPart(i)
    \/ \E r \in PartReqs : StatDone(r)
    \/ \E r \in PartReqs : Open(r)
    \/ \E r \in PartReqs : ReadChunk(r)
    \/ \E r \in PartReqs : StreamEnd(r)
    \/ \E r \in PartReqs : ReadError(r)
    \/ \E r \in PartReqs : ClientClose(r)
    \/ \E path \in DiskPaths : RemoveFile(path)

SpecPartition == InitPartition /\ [][NextPartition]_vars

----------------------------------------------------------------------------
(* The listing of the media folders *)

EntryNames ==
    {<<"a", ".", "mp4">>, <<"b", ".", "MP4">>, <<"b", ".", "jpg">>,
     <<"v", ".", "jpg">>, <<"v", ".", "txt">>}

\* regular file, directory, symbolic link
EntryKinds == {"file", "dir", "link"}

\* readdir succeeds, fails because the folder does not exist, or fails
\* for another reason
DirStates == {"ok", "ENOENT", "EACCES"}

\* the contents of a folder: at most MaxEntries entries of distinct names
FolderContents ==
    {E \in SUBSET [name : EntryNames, kind : EntryKinds] :
        /\ Cardinality(E) <= MaxEntries
        /\ \A e, f \in E : e.name = f.name => e = f}

DirChoices ==
    {[state |-> "ok", entries |-> E] : E \in FolderContents}
    \cup {[state |-> s, entries |-> {}] : s \in DirStates \ {"ok"}}

\* the regular files of the folders, as the stream handler finds them
DiskOf(D) ==
    LET Files(d) == {e \in D[d].entries : e.kind = "file"}
        P == UNION {{<<d, e.name>> : e \in Files(d)} : d \in Roots}
    IN  [p \in P |-> [present |-> TRUE, size |-> MaxSize]]

InitCatalog ==
    /\ dirs \in [Roots -> DirChoices]
    /\ disk = DiskOf(dirs)
    /\ req = [r \in Reqs |-> IdleReq]
    /\ list = IdleList
    /\ page = IdlePage

NextCatalog == ListVideos

SpecCatalog == InitCatalog /\ [][NextCatalog]_vars

----------------------------------------------------------------------------
(* The page lists the folders and requests a listed name *)

\* file names of the folders, some with a "%"
StoredNames ==
    {<<"v", ".", "mp4">>, <<"v", "%", ".", "mp4">>, <<"%", "25", ".", "mp4">>,
     <<"%", ".", "mp4">>, <<"v", ".", "jpg">>, <<"v", "%", "2F", ".", "jpg">>}

\* a folder with regular files only, each in the folder of its extension
StoredFolders(d, extensions) ==
    {[state |-> "ok", entries |-> {FileEntry(n) : n \in E}] :
        E \in SUBSET {n \in StoredNames : LowerExt(n) \in extensions}}

\* the names of the answer of GET /api/videos
Listed ==
    IF list.phase = "Replied" /\ list.status = 200
    THEN {list.body.videos[i] : i \in 1..Len(list.body.videos)}
         \cup {list.body.pictures[i] : i \in 1..Len(list.body.pictures)}
    ELSE {}

\* the value of the route parameter :name: the router decodes the path
\* segment once before the handler runs
RouteParam(segment) == decodeURIComponent(segment)

\* the Range header a media element or a plain GET sends
PageHdrs == {Absent, Hdr(<<"bytes=", "0", "-">>)}

\* app.js:42, server.js:89  the page requests /api/stream/ + encodeURIComponent(name)
\* for a listed name
RequestListed(r) ==
    \E n \in Listed :
        Receive(r, {RouteParam(encodeURIComponent(n))}, PageHdrs)

InitRoundTrip ==
    /\ \E V \in StoredFolders(VIDEOS_DIR, VIDEO_EXTENSIONS),
          P \in StoredFolders(PICTURES_DIR, IMAGE_EXTENSIONS) :
            dirs = (VIDEOS_DIR :> V) @@ (PICTURES_DIR :> P)
    /\ disk = DiskOf(dirs)
    /\ req = [r \in Reqs |-> IdleReq]
    /\ list = IdleList
    /\ page = IdlePage

NextRoundTrip ==
    \/ ListVideos
    \/ \E r \in Reqs : RequestListed(r)
    \/ \E r \in Reqs : StatDone(r)
    \/ \E r \in Reqs : Open(r)
    \/ \E r \in Reqs : ReadChunk(r)
    \/ \E r \in Reqs : StreamEnd(r)
    \/ \E r \in Reqs : ReadError(r)
    \/ \E r \in Reqs : ClientClose(r)

SpecRoundTrip == InitRoundTrip /\ [][NextRoundTrip]_vars

----------------------------------------------------------------------------
(* Clicks on the items of the page *)

\* style.display of an element before the script sets it
Displays == {"", "block", "none"}

InitPage ==
    /\ disk \in [DiskPaths -> [present : {TRUE}, size : {MaxSize}]]
    /\ req = [r \in Reqs |-> IdleReq]
    /\ dirs = [d \in Roots |-> [state |-> "ok", entries |-> Folder(DiskPaths, d)]]
    /\ list = IdleList
    /\ page \in {PageWith(pd, id) : pd \in Displays, id \in Displays}

NextPage ==
    \/ \E item \in PageItems : Click(item)
    \/ \E call \in 1..MaxClicks : PlaySettled(call)

SpecPage == InitPage /\ [][NextPage]_vars

----------------------------------------------------------------------------
(* Two requests in flight at the same time *)

ConcReqs == {"a", "b"}

ConcNames == {<<"v", ".", "mp4">>, <<"v", ".", "jpg">>, <<"v", ".", "txt">>}

ConcHdrs ==
    {Absent, Hdr(<<"x">>), Hdr(<<"bytes=", "0", "-">>), Hdr(<<"bytes=", "1", "-", "2">>)}

InitConcurrent == InitOver(ConcReqs, DiskPaths, {MaxSize})

NextConcurrent == NextOver(ConcReqs, ConcNames, ConcHdrs)

SpecConcurrent == InitConcurrent /\ [][NextConcurrent]_vars

\* the request of this name and Range header when it is the only one and runs
\* to its end with no failure: the handler to its first await, the rest of the
\* handler, then the read stream from start to its last offset
Alone(name, hdr) ==
    LET e == HandlerEntry([IdleReq EXCEPT !.name = name, !.hdr = hdr])
        s == AfterStat(e)
    IN  IF e.phase # "Stat" THEN e
        ELSE IF s.phase # "HeaderSent" THEN s
        ELSE [s EXCEPT !.phase = "Completed",
                       !.body = FileSlice(s.videoPath, s.start, LastOffset(s)),
                       !.pos = LastOffset(s) + 1]

----------------------------------------------------------------------------
(* Vocabulary of the properties *)

\* the request was received and its name can be URL-decoded
Named(q) == q.phase # "Idle" /\ CanDecode(q.name)

\* the decoded name the request asks for
RequestedName(q) == decodeURIComponent(q.name)

HasSeparator(name) == \E i \in 1..Len(name) : name[i] = "/"

HasDotDot(name) == \E i \in 1..(Len(name) - 1) : name[i] = "." /\ name[i + 1] = "."

\* stat was issued, has settled, and found the file
StatFound(q) == q.ops # <<>> /\ q.phase # "Stat" /\ q.status # 404

\* the single-range form: bytes=, digits, -, optional digits, and nothing else
SimpleForm(s) ==
    \E j \in 2..(Len(s) - 1) :
        /\ s[1] = "bytes="
        /\ \A k \in 2..j : IsDigit(s[k])
        /\ s[j + 1] = "-"
        /\ \A k \in (j + 2)..Len(s) : IsDigit(s[k])

IsPrefix(s, t) == Len(s) <= Len(t) /\ s = SubSeq(t, 1, Len(s))

Logged(q, entry) == \E i \in 1..Len(q.log) : q.log[i] = entry

\* no step of the handler or of the read stream of the request is left: it
\* was answered or its stream ended, or its stream is paused for good because
\* the response it was piped into has closed (the guards of StatDone, Open,
\* ReadChunk, StreamEnd and ReadError are all false)
Quiescent(q) ==
    \/ q.phase \in {"Replied", "Completed", "Aborted"}
    \/ q.phase = "Streaming" /\ q.closed

----------------------------------------------------------------------------
(* Properties *)

\* C1: a request whose Range header matches the pattern, for a file stat found
\* with size fileSize, is answered 416 exactly when start >= fileSize or
\* end >= fileSize or start > end (end defaulting to fileSize - 1), and 206
\* otherwise; the range given to createReadStream has 0 <= start <= end < fileSize.
C1_RangeValidation ==
    \A r \in DOMAIN req :
        LET q == req[r]
            m == RangeMatch(q.hdr.val)
            start == parseInt(m[1])
            end == IF m[2] # <<>> THEN parseInt(m[2]) ELSE disk[q.videoPath].size - 1
            size == disk[q.videoPath].size
        IN  (StatFound(q) /\ q.hdr.present /\ RangeMatches(q.hdr.val)) =>
                /\ q.status \in {206, 416}
                /\ q.status = 416 <=> (start >= size \/ end >= size \/ start > end)
                /\ q.status = 206 =>
                      /\ q.hasEnd /\ q.start = start /\ q.end = end
                      /\ 0 <= q.start /\ q.start <= q.end /\ q.end < size

C1_Witness ==
    \E r \in DOMAIN req :
        /\ req[r].status = 206
        /\ req[r].start > 0
        /\ req[r].end = disk[req[r].videoPath].size - 1
        /\ req[r].phase = "Streaming"

\* C2: for a file of size N and Range: bytes=a-b with 0 <= a <= b < N the
\* response is 206 with Content-Range bytes a-b/N, Accept-Ranges bytes and
\* Content-Length b-a+1; the body sent is always a prefix of the bytes at
\* offsets a..b and is exactly those bytes when the stream completes.
C2_PartialContent ==
    \A r \in DOMAIN req : \A a, b \in 0..MaxDigit :
        LET q == req[r]
            N == disk[q.videoPath].size
            want == [i \in 1..(b - a + 1) |-> Byte(q.videoPath, a + i - 1)]
        IN  (/\ StatFound(q)
             /\ q.hdr = Hdr(<<"bytes=", DigitStr[a + 1], "-", DigitStr[b + 1]>>)
             /\ a <= b /\ b < N) =>
                /\ q.status = 206
                /\ DOMAIN q.headers =
                     {"Content-Range", "Accept-Ranges", "Content-Length", "Content-Type"}
                /\ q.headers["Content-Range"] = <<a, b, N>>
                /\ q.headers["Accept-Ranges"] = "bytes"
                /\ q.headers["Content-Length"] = b - a + 1
                /\ IsPrefix(q.body, want)
                /\ q.phase = "Completed" => q.body = want

C2_Witness ==
    \E r \in DOMAIN req :
        /\ req[r].phase = "Completed"
        /\ req[r].status = 206
        /\ req[r].start > 0
        /\ Len(req[r].body) > ChunkSize

\* C3 as stated: a request for a name that contains ".." or a path separator
\* is, once answered, answered 400, and no filesystem call was issued for it.
C3_DotDotOrSeparatorRejected ==
    \A r \in DOMAIN req :
        LET q == req[r]
        IN  (/\ Named(q) /\ q.phase # "Stat"
             /\ (HasDotDot(RequestedName(q)) \/ HasSeparator(RequestedName(q)))) =>
                q.status = 400 /\ q.ops = <<>>

\* C3 amended: a name that contains a path separator is answered 400 and no
\* filesystem call is issued; a name with ".." and no separator is not rejected
\* as invalid, and every filesystem call of any request is on a path made of a
\* media folder and one path component that is not "..".
C3_SeparatorRejected ==
    \A r \in DOMAIN req :
        LET q == req[r]
        IN  /\ (Named(q) /\ HasSeparator(RequestedName(q))) =>
                  q.status = 400 /\ q.ops = <<>>
            /\ (Named(q) /\ ~HasSeparator(RequestedName(q))) => q.status # 400
            /\ \A i \in 1..Len(q.ops) :
                  /\ q.ops[i][2][1] \in {VIDEOS_DIR, PICTURES_DIR}
                  /\ q.ops[i][2][2] = RequestedName(q)
                  /\ ~HasSeparator(q.ops[i][2][2])
                  /\ q.ops[i][2][2] \notin {<<".">>, <<".", ".">>, <<>>}

C3_Witness ==
    \E r \in DOMAIN req :
        /\ req[r].status = 400
        /\ req[r].name = <<".", ".", "%", "2F", "v", ".", "mp4">>

\* C4 as stated: a Range header value that is present, not empty and not exactly
\* of the single-range form is answered 416 (when the name stages and stat let
\* the request reach the Range stage), never 206.
C4_OnlySimpleFormAccepted ==
    \A r \in DOMAIN req :
        LET q == req[r]
        IN  (StatFound(q) /\ q.hdr.present /\ q.hdr.val # <<>> /\ ~SimpleForm(q.hdr.val)) =>
                q.status = 416

\* C5: without a Range header a file that stat found is answered 200 with
\* Content-Length the size of the file; the body sent is always a prefix of the
\* file and is the whole file when the stream completes.
C5_FullContent ==
    \A r \in DOMAIN req :
        LET q == req[r]
            N == disk[q.videoPath].size
            want == [i \in 1..N |-> Byte(q.videoPath, i - 1)]
        IN  (StatFound(q) /\ ~q.hdr.present) =>
                /\ q.status = 200
                /\ DOMAIN q.headers = {"Content-Length", "Content-Type"}
                /\ q.headers["Content-Length"] = N
                /\ IsPrefix(q.body, want)
                /\ q.phase = "Completed" => q.body = want

C5_Witness ==
    \E r \in DOMAIN req :
        /\ req[r].phase = "Completed"
        /\ req[r].status = 200
        /\ ~req[r].hdr.present
        /\ Len(req[r].body) > ChunkSize

\* C6 as stated: whenever a filesystem call of the handler finds the file
\* missing (ENOENT), the client receives 404.
C6_MissingFileIs404 ==
    \A r \in DOMAIN req :
        LET q == req[r]
        IN  (Logged(q, <<"Error streaming file:", "ENOENT">>)
             \/ Logged(q, <<"Stream error:", "ENOENT">>)) => q.status = 404

\* C6 amended: a file missing when stat runs is answered 404, and 404 is
\* answered for nothing else; a file removed after stat and before the read
\* stream opens it leaves the 200 or 206 head that was written and the response
\* is ended with no body.
C6_MissingAtStatIs404 ==
    \A r \in DOMAIN req :
        LET q == req[r]
        IN  /\ Logged(q, <<"Error streaming file:", "ENOENT">>) <=> q.status = 404
            /\ (q.ops # <<>> /\ q.phase # "Stat" /\ ~Present(q.videoPath)
                  /\ Len(q.ops) = 1 /\ q.status \notin {416}) => q.status = 404
            /\ q.status = 404 => ~Present(q.videoPath) /\ Len(q.ops) = 1
            /\ Logged(q, <<"Stream error:", "ENOENT">>) =>
                  /\ q.status \in {200, 206}
                  /\ q.headWrites = 1
                  /\ q.body = <<>>
                  /\ q.phase = "Aborted"
                  /\ ~q.fdOpen

C6_Witness ==
    \E r \in DOMAIN req :
        /\ Logged(req[r], <<"Stream error:", "ENOENT">>)
        /\ req[r].status = 206

\* C7: a request moves Idle -> (Stat ->) HeaderSent -> Streaming -> Completed or
\* Aborted, or is answered with an error before any head; a status and headers
\* are written at most once, and once they are written no step changes the
\* status or a header.
C7_HeadWrittenOnce ==
    [][\A r \in DOMAIN req :
         LET q == req[r]
             n == req'[r]
         IN  /\ n.headWrites <= 1
             /\ q.headWrites = 1 =>
                   n.headWrites = 1 /\ n.status = q.status /\ n.headers = q.headers
             /\ n.phase # q.phase =>
                   <<q.phase, n.phase>> \in
                      { <<"Idle", "Stat">>, <<"Idle", "Replied">>, <<"Stat", "Replied">>,
                        <<"Stat", "HeaderSent">>, <<"HeaderSent", "Streaming">>,
                        <<"HeaderSent", "Aborted">>, <<"Streaming", "Completed">>,
                        <<"Streaming", "Aborted">> }
             /\ n.phase \in {"HeaderSent", "Streaming", "Completed", "Aborted"} =>
                   n.headWrites = 1 /\ n.status \in {200, 206}]_vars

C7_Witness ==
    \E r \in DOMAIN req :
        /\ req[r].phase = "Aborted"
        /\ Logged(req[r], <<"Stream error:", "EIO">>)
        /\ req[r].headWrites = 1
        /\ req[r].body # <<>>

\* C8 as stated: once the client connection has closed, or a read has failed,
\* and no step of the request is left to take, the file descriptor opened for
\* the request is released.
C8_HandleReleased ==
    \A r \in DOMAIN req :
        ((req[r].closed \/ req[r].readError) /\ Quiescent(req[r])) => ~req[r].fdOpen

\* C9 as stated: name, type and Range errors are reported before any file is
\* touched: a request with a valid name of an allowed type and a Range header
\* that does not match is answered 416 with no filesystem call issued.
C9_RangeBeforeFile ==
    \A r \in DOMAIN req :
        LET q == req[r]
        IN  (/\ Named(q) /\ q.phase # "Stat"
             /\ ~HasSeparator(RequestedName(q))
             /\ LowerExt(RequestedName(q)) \in ALLOWED_EXTENSIONS
             /\ q.hdr.present /\ q.hdr.val # <<>> /\ ~RangeMatches(q.hdr.val)) =>
                q.status = 416 /\ q.ops = <<>>

\* C9 amended: for a name that can be decoded the stages run in the order name
\* validation, extension validation, stat of the file, Range parsing and
\* validation, creation of the read stream; the first failing stage alone
\* determines the status.  Name and type errors are answered before any
\* filesystem call, a missing file is answered 404 whatever the Range header
\* is, and a Range error is answered after stat and before any read stream.
C9_StageOrder ==
    \A r \in DOMAIN req :
        LET q == req[r]
            name == RequestedName(q)
            statOp == <<"stat", q.videoPath>>
            bad == q.hdr.present /\ q.hdr.val # <<>>
                   /\ (~RangeMatches(q.hdr.val) \/ q.status = 416)
        IN  (Named(q) /\ q.phase # "Stat") =>
                IF HasSeparator(name) THEN q.status = 400 /\ q.ops = <<>>
                ELSE IF LowerExt(name) \notin ALLOWED_EXTENSIONS
                     THEN q.status = 415 /\ q.ops = <<>>
                ELSE IF q.videoPath \notin DOMAIN disk \/ q.status = 404
                     THEN q.status = 404 /\ q.ops = <<statOp>> /\ ~Present(q.videoPath)
                ELSE IF bad THEN q.status = 416 /\ q.ops = <<statOp>>
                ELSE /\ q.status \in {200, 206}
                     /\ q.ops = <<statOp, <<"createReadStream", q.videoPath>>>>

C9_Witness ==
    \E r \in DOMAIN req :
        /\ req[r].status = 404
        /\ req[r].hdr = Hdr(<<"x">>)

\* C10 as stated: a name whose extension, lower-cased, is not .mp4, .webm, .jpg
\* or .jpeg is answered 415 and no filesystem call is issued.
C10_BadExtensionIs415 ==
    \A r \in DOMAIN req :
        LET q == req[r]
        IN  (/\ Named(q)
             /\ toLowerCase(extname(RequestedName(q))) \notin
                   {<<".", "mp4">>, <<".", "webm">>, <<".", "jpg">>, <<".", "jpeg">>}) =>
                q.status = 415 /\ q.ops = <<>>

\* C10 amended: a name without a path separator whose extension, lower-cased,
\* is not .mp4, .webm, .jpg or .jpeg is answered 415 and no filesystem call is
\* issued.
C10_BadExtensionOfFileNameIs415 ==
    \A r \in DOMAIN req :
        LET q == req[r]
        IN  (/\ Named(q)
             /\ ~HasSeparator(RequestedName(q))
             /\ toLowerCase(extname(RequestedName(q))) \notin
                   {<<".", "mp4">>, <<".", "webm">>, <<".", "jpg">>, <<".", "jpeg">>}) =>
                q.status = 415 /\ q.ops = <<>>

C10_Witness ==
    \E r \in DOMAIN req :
        /\ req[r].status = 415
        /\ req[r].name = <<"v", ".", "txt">>

\* C11 as stated: for a file of any size N that stat found, Range: bytes=0- is
\* answered 206 with Content-Range bytes 0-(N-1)/N and Content-Length N, and
\* the body is the whole file when the stream completes.
C11_OpenEndedFromZero ==
    \A r \in DOMAIN req :
        LET q == req[r]
            N == disk[q.videoPath].size
        IN  (StatFound(q) /\ q.hdr = Hdr(<<"bytes=", "0", "-">>)) =>
                /\ q.status = 206
                /\ q.headers["Content-Range"] = <<0, N - 1, N>>
                /\ q.headers["Content-Length"] = N
                /\ q.phase = "Completed" => q.body = [i \in 1..N |-> Byte(q.videoPath, i - 1)]

\* C11 amended: the same for a file of size N >= 1; for the empty file
\* Range: bytes=0- is answered 416 and no read stream is created.
C11_OpenEndedFromZeroNonEmpty ==
    \A r \in DOMAIN req :
        LET q == req[r]
            N == disk[q.videoPath].size
        IN  (StatFound(q) /\ q.hdr = Hdr(<<"bytes=", "0", "-">>)) =>
                IF N >= 1
                THEN /\ q.status = 206
                     /\ q.headers["Content-Range"] = <<0, N - 1, N>>
                     /\ q.headers["Content-Length"] = N
                     /\ IsPrefix(q.body, [i \in 1..N |-> Byte(q.videoPath, i - 1)])
                     /\ q.phase = "Completed" =>
                           q.body = [i \in 1..N |-> Byte(q.videoPath, i - 1)]
                ELSE q.status = 416 /\ Len(q.ops) = 1 /\ q.body = <<>>

C11_Witness ==
    \E r \in DOMAIN req :
        /\ req[r].hdr = Hdr(<<"bytes=", "0", "-">>)
        /\ req[r].phase = "Completed"
        /\ Len(req[r].body) = MaxSize

\* C12: when the client has received complete answers to bytes=0-(k-1),
\* bytes=k-(m-1), bytes=m-(N-1) with 0 < k < m < N, sent one after the other,
\* and to a request without Range header, the three bodies concatenated are
\* the N bytes of the file and equal the body of the fourth answer.
C12_PartitionIsWholeFile ==
    \A k, m \in 1..MaxSize :
        LET N == disk[VideoFile].size
            whole == [i \in 1..N |-> Byte(VideoFile, i - 1)]
            joined == req["p1"].body \o req["p2"].body \o req["p3"].body
        IN  (/\ k < m /\ m < N
             /\ req["p1"].hdr = PartHdr(0, k - 1)
             /\ req["p2"].hdr = PartHdr(k, m - 1)
             /\ req["p3"].hdr = PartHdr(m, N - 1)
             /\ ~req["full"].hdr.present
             /\ \A r \in PartReqs : req[r].phase = "Completed") =>
                /\ joined = whole
                /\ joined = req["full"].body
                /\ Len(req["p1"].body) = k
                /\ Len(req["p2"].body) = m - k
                /\ Len(req["p3"].body) = N - m
                /\ \A r \in {"p1", "p2", "p3"} : req[r].status = 206
                /\ req["full"].status = 200

C12_Witness ==
    /\ \A r \in PartReqs : req[r].phase = "Completed"
    /\ Len(req["p1"].body) = 1
    /\ Len(req["p2"].body) > ChunkSize - 1
    /\ Len(req["p3"].body) >= 1
    /\ Len(req["full"].body) = MaxSize

\* C13: with two requests in flight in any interleaving and no file removed,
\* each answered request has the status, headers and body it has when it
\* runs alone, and each request that is streaming has sent the head and a
\* prefix of the body it sends alone, read at its own position.
C13_SameAsAlone ==
    (\A p \in DiskPaths : Present(p)) =>
        \A r \in DOMAIN req :
            LET q == req[r]
                a == Alone(q.name, q.hdr)
            IN  /\ q.phase \in {"Completed", "Replied"} =>
                     /\ q.status = a.status
                     /\ q.headers = a.headers
                     /\ q.text = a.text
                     /\ q.body = a.body
                /\ q.phase \in {"HeaderSent", "Streaming"} =>
                     /\ q.status = a.status
                     /\ q.headers = a.headers
                     /\ IsPrefix(q.body, a.body)
                     /\ q.pos = q.start + Len(q.body)

C13_Witness ==
    /\ \A p \in DiskPaths : Present(p)
    /\ req["a"].videoPath = req["b"].videoPath
    /\ req["a"].phase = "Completed"
    /\ req["b"].phase = "Streaming"
    /\ req["a"].status = 206
    /\ req["b"].status = 200
    /\ req["b"].pos = ChunkSize
    /\ req["a"].pos # req["b"].pos

C15_ListedNameStreams ==
    \A r \in DOMAIN req :
        LET q == req[r]
        IN  (q.name \in Listed /\ q.phase \notin {"Idle", "Stat"}) =>
                /\ q.status \in {200, 206}
                /\ q.videoPath[2] = q.name
                /\ FileEntry(q.name) \in dirs[q.videoPath[1]].entries

\* C16: when at least one item was clicked and every call of handleSelect
\* has returned, exactly one of the player and the image viewer is shown, the
\* other is hidden, the one shown has the stream URL of the item clicked last
\* as its src, the text names that item, and its button is the only bold one.
C16_LastClickWins ==
    LET p == page
        last == p.clicks[Len(p.clicks)]
    IN  (p.clicks # <<>> /\ p.pending = {}) =>
            /\ {p.playerDisplay, p.imageDisplay} = {"block", "none"}
            /\ IF last.asImage
               THEN /\ p.imageDisplay = "block"
                    /\ p.imageSrc = <<"/api/stream/">> \o encodeURIComponent(last.name)
               ELSE /\ p.playerDisplay = "block"
                    /\ p.playerSrc = <<"/api/stream/">> \o encodeURIComponent(last.name)
            /\ p.nowPlaying =
                 <<IF last.asImage THEN "Now viewing: " ELSE "Now playing: ">> \o last.name
            /\ \A b \in ButtonNames : (p.fontWeight[b] = "700") <=> (b = last.name)
            /\ \A b \in ButtonNames : p.fontWeight[b] \in {"700", "400"}

\* a click on an image arrived while the call for a video was suspended, and
\* the call for the video returned after the call for the image
C16_Witness ==
    /\ page.pending = {}
    /\ Len(page.clicks) = 2
    /\ ~page.clicks[1].asImage
    /\ page.clicks[2].asImage
    /\ page.ended = <<2, 1>>

=============================================================================
